---- MODULE Spec2Model ----
(***************************************************************************)
(* A model of the greeting web server: the greeter, the configuration      *)
(* loader, the template-rendering handlers, the router with its static     *)
(* file server, the process start-up, and the two drivers of the greeter   *)
(* specification (direct call and HTTP adapter).                           *)
(*                                                                         *)
(* A Go string is modelled as a sequence of one-character strings, so that *)
(* comparison, concatenation, searching and slicing are the operations the *)
(* code performs.                                                          *)
(***************************************************************************)
EXTENDS Integers, Sequences, FiniteSets, TLC

VARIABLES
    environ,        \* the process environment: variable name -> [set, val]
    pc,             \* position of main: "start", "configured", "built", "serving", "fatal"
    cfg,            \* the Config returned by LoadConfig
    server,         \* the http.Server built by NewServer: [addr, routed]
    templates,      \* the template files on disk: path -> "intact", "damaged", "missing"
    staticFiles,    \* the names of the files present in the static directory
    req,            \* the last request served: [method, path]
    resp,           \* the response to it: [status, body, handler, location]
    domainCall,     \* last call of the direct driver: [called, location, message]
    adapterCall,    \* last call of the HTTP driver: [called, location, message, panicked]
    calls,          \* the calls made of the greeter, in order: [location, message]
    inflight        \* the requests being handled concurrently: slot -> its handler's locals

vars == <<environ, pc, cfg, server, templates, staticFiles, req, resp,
          domainCall, adapterCall, calls, inflight>>

----------------------------------------------------------------------------
(* Bounds of the model *)

\* Longest location string enumerated over LocAlphabet.
MaxLocLen == 2

\* Longest sequence of greeter calls recorded.
MaxCalls == 3

\* Number of requests handled at the same time.
MaxInflight == 2

LocAlphabet == {"u", "k"}

----------------------------------------------------------------------------
(* String helpers (package strings, slicing) *)

Empty == <<>>

\* strings.HasPrefix
HasPrefix(s, p) ==
    /\ Len(p) <= Len(s)
    /\ SubSeq(s, 1, Len(p)) = p

\* strings.HasSuffix
HasSuffix(s, p) ==
    /\ Len(p) <= Len(s)
    /\ SubSeq(s, Len(s) - Len(p) + 1, Len(s)) = p

\* The 0-based offsets at which sub occurs in s.
Occurrences(s, sub) ==
    {i \in 0..(Len(s) - Len(sub)) : SubSeq(s, i + 1, i + Len(sub)) = sub}

\* strings.Index: 0-based offset of the first occurrence, -1 when there is none.
Index(s, sub) ==
    LET occ == Occurrences(s, sub)
    IN  IF occ = {} THEN -1
        ELSE CHOOSE i \in occ : \A j \in occ : i <= j

\* strings.Contains
Contains(s, sub) == Index(s, sub) >= 0

\* The Go slice expression s[a:b] for 0 <= a <= b <= len(s).
Slice(s, a, b) == SubSeq(s, a + 1, b)

\* The Go slice expression s[a:].
SliceFrom(s, a) == SubSeq(s, a + 1, Len(s))

----------------------------------------------------------------------------
(* Greeter *)

LocationWorld == <<"w","o","r","l","d">>
LocationUK == <<"u","k">>

HelloWorld == <<"H","e","l","l","o",","," ","W","o","r","l","d","!">>
HelloUK == <<"H","e","l","l","o",","," ","U","K","!">>

\* Variants of Greet with a slip in one branch.
GreetIgnoringLocation(location) == HelloWorld

GreetEmptyDefault(location) ==
    CASE location = LocationUK -> HelloUK
      [] location = LocationWorld -> HelloWorld
      [] OTHER -> Empty

GreetFoldingCase(location) ==
    CASE location \in {<<"u","k">>, <<"U","K">>, <<"U","k">>, <<"u","K">>} -> HelloUK
      [] location = LocationWorld -> HelloWorld
      [] OTHER -> HelloWorld

\* A variant of Greet that keeps the last greeting and gives it back for a
\* location it does not recognize.
GreetRemembering(location) ==
    CASE location = LocationUK -> HelloUK
      [] location = LocationWorld -> HelloWorld
      [] OTHER -> IF calls = <<>> THEN HelloWorld ELSE calls[Len(calls)].message

\* GreeterService.Greet
Greet(location) ==
    CASE location = LocationUK -> HelloUK
      [] location = LocationWorld -> HelloWorld
      [] OTHER -> HelloWorld

----------------------------------------------------------------------------
(* Configuration loader *)

EnvKey == "ENV"
PortKey == "PORT"

DefaultEnv == <<"l","o","c","a","l">>
DefaultPort == <<"8","0","8","0">>

\* os.Getenv: the value of the variable, empty when it is not set.
Getenv(key) == IF environ[key].set THEN environ[key].val ELSE Empty

\* A variant of LoadConfig that reads the port from the wrong variable.
LoadConfigPortReadsEnv ==
    LET env == Getenv(EnvKey)
        port == Getenv(EnvKey)
    IN  [Env |-> IF env = Empty THEN DefaultEnv ELSE env,
         Port |-> IF port = Empty THEN DefaultPort ELSE port]

\* LoadConfig
LoadConfig ==
    LET env == Getenv(EnvKey)
        port == Getenv(PortKey)
    IN  [Env |-> IF env = Empty THEN DefaultEnv ELSE env,
         Port |-> IF port = Empty THEN DefaultPort ELSE port]

----------------------------------------------------------------------------
(* Template files and the template engine (html/template) *)

\* filepath.Join on the target platform: the elements separated by "/".
RECURSIVE Join(_)
Join(elems) ==
    IF Len(elems) = 0 THEN Empty
    ELSE IF Len(elems) = 1 THEN elems[1]
    ELSE elems[1] \o <<"/">> \o Join(Tail(elems))

\* filepath.Base of a path without a trailing slash: what follows the last "/".
RECURSIVE Base(_)
Base(path) ==
    LET i == Index(path, <<"/">>)
    IN  IF i = -1 THEN path ELSE Base(SliceFrom(path, i + 1))

IndexTemplatePath == Join(<<<<"t","e","m","p","l","a","t","e","s">>, <<"i","n","d","e","x",".","h","t","m","l">>>>)
HelloWorldTemplatePath == Join(<<<<"t","e","m","p","l","a","t","e","s">>, <<"p","a","r","t","i","a","l","s">>, <<"h","e","l","l","o","_","w","o","r","l","d",".","h","t","m","l">>>>)
HelloUKTemplatePath == Join(<<<<"t","e","m","p","l","a","t","e","s">>, <<"p","a","r","t","i","a","l","s">>, <<"h","e","l","l","o","_","u","k",".","h","t","m","l">>>>)

\* The template files as the repository ships them.
RepoTemplateText(path) ==
    CASE path = IndexTemplatePath -> <<"<","h","1",">","G","r","e","e","t","i","n","g","s","<","/","h","1",">">>
      [] path = HelloWorldTemplatePath -> <<"<","d","i","v",">","<","h","2",">","{","{",".","M","e","s","s","a","g","e","}","}","<","/","h","2",">","<","/","d","i","v",">">>
      [] path = HelloUKTemplatePath -> <<"<","d","i","v",">","<","h","2",">","{","{",".","M","e","s","s","a","g","e","}","}","<","/","h","2",">","<","/","d","i","v",">">>

\* A damaged copy of each file: cut off inside an action.
BrokenTemplateText(path) ==
    CASE path = IndexTemplatePath -> <<"<","h","1",">","{","{">>
      [] path = HelloWorldTemplatePath -> <<"<","d","i","v",">","<","h","2",">","{","{",".","M","e","s","s">>
      [] path = HelloUKTemplatePath -> <<"<","d","i","v",">","<","h","2",">","{","{",".","M","e","s","s">>

\* A copy of each file that parses but cannot be executed: the index page
\* is executed without data, and the message of a partial is a string.
FaultyTemplateText(path) ==
    CASE path = IndexTemplatePath -> <<"<","h","1",">","{","{",".","T","i","t","l","e","}","}","<","/","h","1",">">>
      [] path = HelloWorldTemplatePath -> <<"<","d","i","v",">","<","h","2",">","{","{",".","M","e","s","s","a","g","e",".","T","e","x","t","}","}","<","/","h","2",">","<","/","d","i","v",">">>
      [] path = HelloUKTemplatePath -> <<"<","d","i","v",">","<","h","2",">","{","{",".","M","e","s","s","a","g","e",".","T","e","x","t","}","}","<","/","h","2",">","<","/","d","i","v",">">>

\* The states a template file is written in, and the text it then holds.
WrittenStates == {"intact", "damaged"}

TemplateText(path, state) ==
    CASE state = "damaged" -> BrokenTemplateText(path)
      [] state = "faulty" -> FaultyTemplateText(path)
      [] OTHER -> RepoTemplateText(path)

\* The template files by the name the state is printed under.
TemplateFiles == {"index.html", "hello_world.html", "hello_uk.html"}

TemplateFilePath(file) ==
    CASE file = "index.html" -> IndexTemplatePath
      [] file = "hello_world.html" -> HelloWorldTemplatePath
      [] file = "hello_uk.html" -> HelloUKTemplatePath

FileAt(path) == CHOOSE f \in TemplateFiles : TemplateFilePath(f) = path

LeftDelim == <<"{","{">>
RightDelim == <<"}","}">>

\* The action text names a field of the data, or a field of a field: names,
\* each after a dot.
IsFieldAction(action) ==
    /\ Len(action) >= 2
    /\ action[1] = "."
    /\ action[Len(action)] # "."
    /\ ~Contains(action, <<".",".">>)
    /\ \A i \in 2..Len(action) : action[i] \notin {" ", "{", "}", "|", "(", ")"}

\* The parse tree of a template text: literal text and field actions.
\* The template texts of this model hold no other kind of action.
RECURSIVE ParseText(_, _)
ParseText(name, text) ==
    LET open == Index(text, LeftDelim)
    IN  IF open = -1
        THEN [ok |-> TRUE, err |-> Empty,
              nodes |-> IF text = Empty THEN <<>>
                        ELSE <<[kind |-> "text", val |-> text]>>]
        ELSE
          LET before == Slice(text, 0, open)
              rest == SliceFrom(text, open + 2)
              close == Index(rest, RightDelim)
          IN  IF close = -1
              THEN [ok |-> FALSE,
                    err |-> <<"t","e","m","p","l","a","t","e",":"," ">> \o name \o <<":","1",":"," ","u","n","c","l","o","s","e","d"," ","a","c","t","i","o","n">>,
                    nodes |-> <<>>]
              ELSE
                LET action == Slice(rest, 0, close)
                    tail == ParseText(name, SliceFrom(rest, close + 2))
                    lead == IF before = Empty THEN <<>>
                            ELSE <<[kind |-> "text", val |-> before]>>
                IN  IF ~IsFieldAction(action)
                    THEN [ok |-> FALSE,
                          err |-> <<"t","e","m","p","l","a","t","e",":"," ">> \o name \o <<":","1",":"," ","u","n","e","x","p","e","c","t","e","d"," ","a","c","t","i","o","n">>,
                          nodes |-> <<>>]
                    ELSE IF ~tail.ok THEN tail
                    ELSE [ok |-> TRUE, err |-> Empty,
                          nodes |-> lead
                                    \o <<[kind |-> "field", val |-> SliceFrom(action, 1)]>>
                                    \o tail.nodes]

\* template.ParseFiles(path) on a file in the given state: reads the file, then
\* parses it under its base name.
ParseFileIn(path, state) ==
    IF state = "missing"
    THEN [ok |-> FALSE,
          err |-> <<"o","p","e","n"," ">> \o path \o <<":"," ","n","o"," ","s","u","c","h"," ","f","i","l","e"," ","o","r"," ","d","i","r","e","c","t","o","r","y">>,
          nodes |-> <<>>]
    ELSE ParseText(Base(path), TemplateText(path, state))

\* template.ParseFiles(path) on the file as it is now.
ParseFiles(path) == ParseFileIn(path, templates[FileAt(path)])

\* The escaping html/template applies to a value printed in HTML text.
EscapeChar(c) ==
    CASE c = "&" -> <<"&","a","m","p",";">>
      [] c = "<" -> <<"&","l","t",";">>
      [] c = ">" -> <<"&","g","t",";">>
      [] c = "\"" -> <<"&","#","3","4",";">>
      [] c = "'" -> <<"&","#","3","9",";">>
      [] c = "+" -> <<"&","#","4","3",";">>
      [] OTHER -> <<c>>

RECURSIVE HTMLEscape(_)
HTMLEscape(s) ==
    IF s = Empty THEN Empty ELSE EscapeChar(Head(s)) \o HTMLEscape(Tail(s))

\* The data handed to Execute: nil, or a map[string]string.
NilData == [isNil |-> TRUE, fields |-> <<>>]
MessageData(message) ==
    [isNil |-> FALSE, fields |-> [k \in {<<"M","e","s","s","a","g","e">>} |-> message]]

\* tmpl.Execute(w, data): the bytes written to w, and whether execution failed.
\* Output is written node by node; a failure leaves what was written before it.
\* A field of nil data cannot be evaluated, nor can a field of a string; a key
\* the map lacks gives the empty string.
RECURSIVE Execute(_, _, _)
Execute(nodes, data, out) ==
    IF nodes = <<>> THEN [out |-> out, failed |-> FALSE]
    ELSE
      LET n == Head(nodes)
      IN  IF n.kind = "text" THEN Execute(Tail(nodes), data, out \o n.val)
          ELSE IF data.isNil THEN [out |-> out, failed |-> TRUE]
          ELSE IF Contains(n.val, <<".">>) THEN [out |-> out, failed |-> TRUE]
          ELSE
            LET v == IF n.val \in DOMAIN data.fields
                     THEN data.fields[n.val] ELSE Empty
            IN  Execute(Tail(nodes), data, out \o HTMLEscape(v))

----------------------------------------------------------------------------
(* Request handlers *)

StatusOK == 200
StatusMovedPermanently == 301
StatusNotFound == 404
StatusMethodNotAllowed == 405
StatusInternalServerError == 500

Newline == <<"\n">>

\* http.Error(w, text, code): the status, and the text followed by a newline.
HttpError(text, code) ==
    [status |-> code, body |-> text \o Newline, location |-> Empty,
     rendered |-> FALSE]

\* A variant of Render that reports a failed execution as an error.
RenderReportsFailure(nodes, data) ==
    LET run == Execute(nodes, data, Empty)
    IN  IF run.failed
        THEN HttpError(<<"t","e","m","p","l","a","t","e",":"," ","e","x","e","c","u","t","i","o","n"," ","f","a","i","l","e","d">>, StatusInternalServerError)
        ELSE [status |-> StatusOK, body |-> run.out, location |-> Empty,
              rendered |-> TRUE]

\* What the response holds after tmpl.Execute(w, data) and the handler's
\* return: nothing set the status, so it is 200.
Render(nodes, data) ==
    [status |-> StatusOK, body |-> Execute(nodes, data, Empty).out,
     location |-> Empty, rendered |-> TRUE]

\* A variant of IndexHandler that reports a load failure as "not found".
IndexHandlerNotFoundOnError ==
    LET tmpl == ParseFiles(IndexTemplatePath)
    IN  IF ~tmpl.ok THEN HttpError(tmpl.err, StatusNotFound)
        ELSE Render(tmpl.nodes, NilData)

\* Handler.IndexHandler
IndexHandler ==
    LET tmpl == ParseFiles(IndexTemplatePath)
    IN  IF ~tmpl.ok THEN HttpError(tmpl.err, StatusInternalServerError)
        ELSE Render(tmpl.nodes, NilData)

\* Variants of the greeting handlers that pass the other location tag.
HelloWorldHandlerGreetsUK ==
    LET message == Greet(LocationUK)
        tmpl == ParseFiles(HelloWorldTemplatePath)
    IN  IF ~tmpl.ok THEN HttpError(tmpl.err, StatusInternalServerError)
        ELSE Render(tmpl.nodes, MessageData(message))

HelloUKHandlerGreetsWorld ==
    LET message == Greet(LocationWorld)
        tmpl == ParseFiles(HelloUKTemplatePath)
    IN  IF ~tmpl.ok THEN HttpError(tmpl.err, StatusInternalServerError)
        ELSE Render(tmpl.nodes, MessageData(message))

\* Handler.HelloWorldHandler
HelloWorldHandler ==
    LET message == Greet(LocationWorld)
        tmpl == ParseFiles(HelloWorldTemplatePath)
    IN  IF ~tmpl.ok THEN HttpError(tmpl.err, StatusInternalServerError)
        ELSE Render(tmpl.nodes, MessageData(message))

\* Handler.HelloUKHandler
HelloUKHandler ==
    LET message == Greet(LocationUK)
        tmpl == ParseFiles(HelloUKTemplatePath)
    IN  IF ~tmpl.ok THEN HttpError(tmpl.err, StatusInternalServerError)
        ELSE Render(tmpl.nodes, MessageData(message))

----------------------------------------------------------------------------
(* Static file server: http.StripPrefix over http.FileServer(http.Dir) *)

StaticPrefix == <<"/","s","t","a","t","i","c","/">>

AppCSS == <<"a","p","p",".","c","s","s">>
IndexHTML == <<"i","n","d","e","x",".","h","t","m","l">>

\* The files the static directory may hold, in directory-listing order.
StaticOrder == <<AppCSS, IndexHTML>>

\* The files the environment of this model adds and removes.
StaticNames == {AppCSS}

StaticContent(name) ==
    CASE name = AppCSS -> <<"b","o","d","y","{","}">>
      [] name = IndexHTML -> <<"<","p",">","s","t","a","t","i","c","<","/","p",">">>

NotFoundText == <<"4","0","4"," ","p","a","g","e"," ","n","o","t"," ","f","o","u","n","d">>

\* A response that is not the work of a template handler.
Plain(status, body, location) ==
    [status |-> status, body |-> body, location |-> location, rendered |-> FALSE]

\* strings.Split(s, "/")
RECURSIVE Split(_)
Split(s) ==
    LET i == Index(s, <<"/">>)
    IN  IF i = -1 THEN <<s>>
        ELSE <<Slice(s, 0, i)>> \o Split(SliceFrom(s, i + 1))

\* The elements of a rooted path that remain once empty and "." elements are
\* dropped and ".." has removed the element before it.
RECURSIVE Resolve(_, _)
Resolve(segs, stack) ==
    IF segs = <<>> THEN stack
    ELSE
      LET h == Head(segs)
      IN  IF h = Empty \/ h = <<".">> THEN Resolve(Tail(segs), stack)
          ELSE IF h = <<".",".">>
          THEN Resolve(Tail(segs),
                       IF stack = <<>> THEN <<>>
                       ELSE SubSeq(stack, 1, Len(stack) - 1))
          ELSE Resolve(Tail(segs), Append(stack, h))

\* path.Clean of a rooted path.
PathClean(p) == <<"/">> \o Join(Resolve(Split(p), <<>>))

\* http.FileServer(http.Dir("static")).ServeHTTP for URL path upath.
\* The static directory holds plain files only.
FileServer(method, upath) ==
    LET url == IF HasPrefix(upath, <<"/">>) THEN upath ELSE <<"/">> \o upath
        name == PathClean(url)
        file == SliceFrom(name, 1)
        content(f) == IF method = "HEAD" THEN Empty ELSE StaticContent(f)
        listing ==
            LET present == SelectSeq(StaticOrder, LAMBDA f : f \in staticFiles)
                entry(f) == <<"<","a"," ","h","r","e","f","=","\"">> \o f \o <<"\"",">">> \o f \o <<"<","/","a",">","\n">>
                lines[i \in 0..Len(present)] ==
                    IF i = 0 THEN Empty ELSE lines[i - 1] \o entry(present[i])
            IN  <<"<","p","r","e",">","\n">> \o lines[Len(present)] \o <<"<","/","p","r","e",">","\n">>
    IN  IF HasSuffix(url, <<"/","i","n","d","e","x",".","h","t","m","l">>)
        THEN Plain(StatusMovedPermanently, Empty, <<".","/">>)
        ELSE IF name = <<"/">>
        THEN IF IndexHTML \in staticFiles
             THEN Plain(StatusOK, content(IndexHTML), Empty)
             ELSE Plain(StatusOK, listing, Empty)
        ELSE IF file \notin staticFiles
        THEN Plain(StatusNotFound, NotFoundText \o Newline, Empty)
        ELSE IF url[Len(url)] = "/"
        THEN Plain(StatusMovedPermanently, Empty, <<".",".","/">> \o Base(name))
        ELSE Plain(StatusOK, content(file), Empty)

\* A variant of StripPrefix that hands the whole path to the file server.
StripPrefixKeepsPath(prefix, method, path) == FileServer(method, path)

\* http.StripPrefix(prefix, h): h serves the path without the prefix; a path
\* that lacks the prefix is not found.
StripPrefix(prefix, method, path) ==
    IF HasPrefix(path, prefix) /\ Len(prefix) > 0
    THEN FileServer(method, SliceFrom(path, Len(prefix)))
    ELSE Plain(StatusNotFound, NotFoundText \o Newline, Empty)

----------------------------------------------------------------------------
(* Router (gorilla/mux) *)

AnyMethod == {}

\* A variant of NewRouter that also registers POST for the UK greeting.
NewRouterPostOnUK ==
    << [kind |-> "path", tpl |-> <<"/">>, methods |-> {"GET"}, handler |-> "index"],
       [kind |-> "path", tpl |-> <<"/","h","e","l","l","o","-","w","o","r","l","d">>, methods |-> {"GET"},
        handler |-> "hello-world"],
       [kind |-> "path", tpl |-> <<"/","h","e","l","l","o","-","u","k">>, methods |-> {"GET", "POST"},
        handler |-> "hello-uk"],
       [kind |-> "prefix", tpl |-> StaticPrefix, methods |-> AnyMethod,
        handler |-> "static"] >>

\* NewRouter: the routes in registration order.
NewRouter ==
    << [kind |-> "path", tpl |-> <<"/">>, methods |-> {"GET"}, handler |-> "index"],
       [kind |-> "path", tpl |-> <<"/","h","e","l","l","o","-","w","o","r","l","d">>, methods |-> {"GET"},
        handler |-> "hello-world"],
       [kind |-> "path", tpl |-> <<"/","h","e","l","l","o","-","u","k">>, methods |-> {"GET"},
        handler |-> "hello-uk"],
       [kind |-> "prefix", tpl |-> StaticPrefix, methods |-> AnyMethod,
        handler |-> "static"] >>

\* mux's cleanPath: the canonical form of a request path, keeping a trailing slash.
CleanPath(p) ==
    IF p = Empty THEN <<"/">>
    ELSE
      LET q == IF p[1] # "/" THEN <<"/">> \o p ELSE p
          np == PathClean(q)
      IN  IF q[Len(q)] = "/" /\ np # <<"/">> THEN np \o <<"/">> ELSE np

\* A variant of PathMatches that treats every route as a prefix route.
PathMatchesAsPrefix(route, path) == HasPrefix(path, route.tpl)

\* Route.Match, path part: Path(tpl) matches the whole path, PathPrefix(tpl) its start.
PathMatches(route, path) ==
    IF route.kind = "path" THEN path = route.tpl ELSE HasPrefix(path, route.tpl)

\* Route.Match, method part: a route without Methods(...) takes every method.
MethodMatches(route, method) ==
    route.methods = AnyMethod \/ method \in route.methods

\* Router.Match: the first route matching path and method; failing that,
\* whether some route matched the path but not the method.
Match(routes, method, path) ==
    LET hits == {i \in 1..Len(routes) :
                    PathMatches(routes[i], path) /\ MethodMatches(routes[i], method)}
        mismatch == \E i \in 1..Len(routes) :
                    PathMatches(routes[i], path) /\ ~MethodMatches(routes[i], method)
    IN  IF hits # {}
        THEN [found |-> TRUE, mismatch |-> FALSE,
              handler |-> routes[CHOOSE i \in hits : \A j \in hits : i <= j].handler]
        ELSE [found |-> FALSE, mismatch |-> mismatch, handler |-> "none"]

\* The handler a route names, run on the request.
RunHandler(handler, method, path) ==
    CASE handler = "index" -> IndexHandler
      [] handler = "hello-world" -> HelloWorldHandler
      [] handler = "hello-uk" -> HelloUKHandler
      [] handler = "static" -> StripPrefix(StaticPrefix, method, path)

\* Adds to a response the name of what produced it.
By(handler, r) ==
    [handler |-> handler, status |-> r.status, body |-> r.body,
     location |-> r.location, rendered |-> r.rendered]

\* Router.ServeHTTP: a path that is not in canonical form is redirected to its
\* canonical form; otherwise the matching route's handler runs, and without
\* one the answer is 405 on a method mismatch and 404 else.
ServeHTTP(routes, method, path) ==
    LET clean == CleanPath(path)
        m == Match(routes, method, path)
    IN  IF clean # path
        THEN By("redirect", Plain(StatusMovedPermanently, Empty, clean))
        ELSE IF m.found THEN By(m.handler, RunHandler(m.handler, method, path))
        ELSE IF m.mismatch
        THEN By("method-not-allowed", Plain(StatusMethodNotAllowed, Empty, Empty))
        ELSE By("not-found", Plain(StatusNotFound, NotFoundText \o Newline, Empty))

----------------------------------------------------------------------------
(* The two drivers of the greeter specification *)

\* The location strings the drivers are called with: every string over
\* LocAlphabet of at most MaxLocLen characters, and some longer ones.
RECURSIVE StringsUpTo(_)
StringsUpTo(n) ==
    IF n = 0 THEN {Empty}
    ELSE LET shorter == StringsUpTo(n - 1)
         IN  shorter \cup {Append(s, c) : s \in shorter, c \in LocAlphabet}

Locations ==
    StringsUpTo(MaxLocLen)
        \cup {LocationWorld, LocationUK, <<"f","r","a","n","c","e">>, <<"U","K">>}

H2Open == <<"<","h","2",">">>
H2Close == <<"<","/","h","2",">">>

\* HTTPGreeterAdapter.Greet: the handler chosen for the location is run on a
\* recorder, and the message is cut out of the recorded body. The slice
\* expression panics when the closing tag starts before the opening tag ends.
HTTPGreeterAdapterGreet(location) ==
    LET rec == CASE location = LocationWorld -> HelloWorldHandler
                 [] location = LocationUK -> HelloUKHandler
                 [] OTHER -> HelloWorldHandler
        content == rec.body
        start == Index(content, H2Open)
        end == Index(content, H2Close)
    IN  IF start # -1 /\ end # -1
        THEN IF start + 4 > end
             THEN [panicked |-> TRUE, message |-> Empty, code |-> rec.status]
             ELSE [panicked |-> FALSE, message |-> Slice(content, start + 4, end),
                   code |-> rec.status]
        ELSE [panicked |-> FALSE, message |-> content, code |-> rec.status]

----------------------------------------------------------------------------
(* Process start-up *)

\* fmt.Sprintf(":%s", cfg.Port)
Addr(config) == <<":">> \o config.Port

\* NewServer
NewServer(config) == [addr |-> Addr(config), routes |-> NewRouter]

Digits == {"0", "1", "2", "3", "4", "5", "6", "7", "8", "9"}

\* The address names a port the listener can resolve: ":" and decimal digits.
\* (The ports of this model are below 65536.)
ListenableAddr(addr) ==
    /\ Len(addr) >= 2
    /\ addr[1] = ":"
    /\ \A i \in 2..Len(addr) : addr[i] \in Digits

----------------------------------------------------------------------------
(* Inputs *)

Unset == [set |-> FALSE, val |-> Empty]
SetTo(v) == [set |-> TRUE, val |-> v]

EnvValues ==
    {Unset, SetTo(Empty), SetTo(<<"p","r","o","d">>), SetTo(<<"l","o","c","a","l">>), SetTo(<<"8","0","8","0">>)}
PortValues ==
    {Unset, SetTo(Empty), SetTo(<<"9","0","9","0">>), SetTo(<<"a","b","c">>), SetTo(<<"8","0","8","0">>),
     SetTo(<<"l","o","c","a","l">>)}

\* The environments the server of Spec is started in.
ServerEnvirons ==
    { [k \in {EnvKey, PortKey} |-> Unset],
      [k \in {EnvKey, PortKey} |->
          IF k = EnvKey THEN SetTo(<<"p","r","o","d">>) ELSE SetTo(<<"9","0","9","0">>)] }

Methods == {"GET", "POST"}

HealthPaths == {<<"/","h","e","a","l","t","h","z">>, <<"/","h","e","a","l","t","h">>}

RequestPaths ==
    { <<"/">>, <<"/","h","e","l","l","o","-","w","o","r","l","d">>, <<"/","h","e","l","l","o","-","u","k">>, <<"/","H","e","l","l","o","-","U","K">>,
      <<"/","s","t","a","t","i","c">>, <<"/","s","t","a","t","i","c","/">>, <<"/","s","t","a","t","i","c","/","a","p","p",".","c","s","s">>, <<"/","s","t","a","t","i","c","/","m","i","s","s","i","n","g",".","c","s","s">>,
      <<"/","s","t","a","t","i","c","/","i","n","d","e","x",".","h","t","m","l">>,
      <<"/","/","h","e","l","l","o","-","w","o","r","l","d">>, <<"/","s","t","a","t","i","c","/",".",".","/","h","e","l","l","o","-","u","k">> }
        \cup HealthPaths

----------------------------------------------------------------------------
(* State machine *)

NoRequest == [method |-> "", path |-> Empty]
NoResponse ==
    [handler |-> "none", status |-> 0, body |-> Empty, location |-> Empty,
     rendered |-> FALSE]
NoDomainCall == [called |-> FALSE, location |-> Empty, message |-> Empty]
NoAdapterCall ==
    [called |-> FALSE, location |-> Empty, message |-> Empty,
     panicked |-> FALSE, code |-> 0]

Slots == 1..MaxInflight

IdleSlot ==
    [stage |-> "idle", method |-> "", path |-> Empty, handler |-> "none",
     message |-> Empty, tmpl |-> "none", seen |-> "none", resp |-> NoResponse]

\* The process before main runs, with the environment e and the template
\* files in the states t.
BootWith(e, t) ==
    /\ environ = e
    /\ pc = "start"
    /\ cfg = [Env |-> Empty, Port |-> Empty]
    /\ server = [addr |-> Empty, routes |-> <<>>]
    /\ templates = t
    /\ staticFiles = {AppCSS}
    /\ req = NoRequest
    /\ resp = NoResponse
    /\ domainCall = NoDomainCall
    /\ adapterCall = NoAdapterCall
    /\ calls = <<>>
    /\ inflight = [s \in Slots |-> IdleSlot]

\* The process before main runs, in a checkout of the repository, with the
\* environment e.
Boot(e) == BootWith(e, [f \in TemplateFiles |-> "intact"])

Init == \E e \in ServerEnvirons : Boot(e)

\* main: cfg := internal.LoadConfig()
MainLoadConfig ==
    /\ pc = "start"
    /\ cfg' = LoadConfig
    /\ pc' = "configured"
    /\ UNCHANGED <<environ, server, templates, staticFiles, req, resp,
                   domainCall, adapterCall,
                   calls, inflight>>

\* main: server := internal.NewServer(cfg)
MainNewServer ==
    /\ pc = "configured"
    /\ server' = NewServer(cfg)
    /\ pc' = "built"
    /\ UNCHANGED <<environ, cfg, templates, staticFiles, req, resp,
                   domainCall, adapterCall,
                   calls, inflight>>

\* main: server.ListenAndServe() binds the address and starts serving.
MainListen ==
    /\ pc = "built"
    /\ ListenableAddr(server.addr)
    /\ pc' = "serving"
    /\ UNCHANGED <<environ, cfg, server, templates, staticFiles, req, resp,
                   domainCall, adapterCall,
                   calls, inflight>>

\* main: server.ListenAndServe() returns an error (the address cannot be
\* resolved, or the port cannot be bound), and log.Fatalf ends the process.
MainListenFails ==
    /\ pc = "built"
    /\ pc' = "fatal"
    /\ UNCHANGED <<environ, cfg, server, templates, staticFiles, req, resp,
                   domainCall, adapterCall,
                   calls, inflight>>

\* A variant of HandleRequest that ends the process when a handler answers 500.
HandleRequestFatalOn500(method, path) ==
    LET r == ServeHTTP(server.routes, method, path)
    IN  /\ pc = "serving"
        /\ req' = [method |-> method, path |-> path]
        /\ resp' = r
        /\ pc' = IF r.status = StatusInternalServerError THEN "fatal" ELSE pc
        /\ UNCHANGED <<environ, cfg, server, templates, staticFiles,
                       domainCall, adapterCall,
                   calls, inflight>>

\* The server handles one request.
HandleRequest(method, path) ==
    /\ pc = "serving"
    /\ req' = [method |-> method, path |-> path]
    /\ resp' = ServeHTTP(server.routes, method, path)
    /\ UNCHANGED <<environ, pc, cfg, server, templates, staticFiles,
                   domainCall, adapterCall,
                   calls, inflight>>

\* The environment removes a template file.
RemoveTemplate(file) ==
    /\ templates[file] # "missing"
    /\ templates' = [templates EXCEPT ![file] = "missing"]
    /\ UNCHANGED <<environ, pc, cfg, server, staticFiles, req, resp,
                   domainCall, adapterCall,
                   calls, inflight>>

\* The environment writes a template file.
WriteTemplate(file, state) ==
    /\ templates[file] # state
    /\ templates' = [templates EXCEPT ![file] = state]
    /\ UNCHANGED <<environ, pc, cfg, server, staticFiles, req, resp,
                   domainCall, adapterCall,
                   calls, inflight>>

\* The environment adds a file to the static directory.
PutStatic(name) ==
    /\ name \notin staticFiles
    /\ staticFiles' = staticFiles \cup {name}
    /\ UNCHANGED <<environ, pc, cfg, server, templates, req, resp,
                   domainCall, adapterCall,
                   calls, inflight>>

\* The environment removes a file from the static directory.
RemoveStatic(name) ==
    /\ name \in staticFiles
    /\ staticFiles' = staticFiles \ {name}
    /\ UNCHANGED <<environ, pc, cfg, server, templates, req, resp,
                   domainCall, adapterCall,
                   calls, inflight>>

\* TestGreeter_Domain: the specification calls the greeter directly.
DomainGreet(location) ==
    /\ domainCall' = [called |-> TRUE, location |-> location,
                      message |-> Greet(location)]
    /\ UNCHANGED <<environ, pc, cfg, server, templates, staticFiles, req, resp,
                   adapterCall,
                   calls, inflight>>

\* One more call of the greeter's Greet, after the calls made so far.
GreeterCall(location) ==
    /\ Len(calls) < MaxCalls
    /\ calls' = Append(calls, [location |-> location, message |-> Greet(location)])
    /\ UNCHANGED <<environ, pc, cfg, server, templates, staticFiles, req, resp,
                   domainCall, adapterCall, inflight>>

\* TestGreeter_HTTP: the specification calls the greeter through the adapter.
AdapterGreet(location) ==
    /\ LET r == HTTPGreeterAdapterGreet(location)
       IN  adapterCall' = [called |-> TRUE, location |-> location,
                           message |-> r.message, panicked |-> r.panicked,
                           code |-> r.code]
    /\ UNCHANGED <<environ, pc, cfg, server, templates, staticFiles, req, resp,
                   domainCall,
                   calls, inflight>>

----------------------------------------------------------------------------
(* Requests handled concurrently: each handler runs in its own goroutine and
   keeps what it computes in local variables. *)

TemplateHandlers == {"index", "hello-world", "hello-uk"}

\* The template file each handler loads.
HandlerTemplatePath(handler) ==
    CASE handler = "index" -> IndexTemplatePath
      [] handler = "hello-world" -> HelloWorldTemplatePath
      [] handler = "hello-uk" -> HelloUKTemplatePath

\* A variant of HandlerMessage in which the message is a field of the shared
\* Handler: a handler that has not yet written its response finds the message
\* of the handler that stored one before it.
HandlerMessageShared(slot, handler) ==
    LET writers == {o \in Slots \ {slot} :
                        inflight[o].stage = "parsed" /\ inflight[o].handler # "index"}
    IN  IF handler = "index" THEN Empty
        ELSE IF writers # {} THEN inflight[CHOOSE o \in writers : TRUE].message
        ELSE IF handler = "hello-world" THEN Greet(LocationWorld)
        ELSE Greet(LocationUK)

\* The local variable message of the handler running in the slot: the index
\* handler has none, the others ask the greeter with their location tag.
HandlerMessage(slot, handler) ==
    IF handler = "index" THEN Empty
    ELSE IF handler = "hello-world" THEN Greet(LocationWorld)
    ELSE Greet(LocationUK)

\* A variant of LoadTemplate that keeps parsed templates: a template parsed
\* by a request still held in another slot is used again.
LoadTemplateCached(slot, path) ==
    LET holders == {o \in Slots \ {slot} :
                        /\ inflight[o].stage \in {"parsed", "done"}
                        /\ inflight[o].handler \in TemplateHandlers
                        /\ HandlerTemplatePath(inflight[o].handler) = path
                        /\ inflight[o].tmpl \notin {"missing", "damaged"}}
    IN  IF holders # {} THEN inflight[CHOOSE o \in holders : TRUE].tmpl
        ELSE templates[FileAt(path)]

\* The local variables tmpl, err of the handler running in the slot, as the
\* state of the file template.ParseFiles read: the file is read at this call.
LoadTemplate(slot, path) == templates[FileAt(path)]

\* The rest of a template handler: the error answer when the load failed,
\* the execution of the template with the handler's data otherwise.
FinishHandler(handler, tmplState, message) ==
    LET tmpl == ParseFileIn(HandlerTemplatePath(handler), tmplState)
    IN  IF ~tmpl.ok THEN HttpError(tmpl.err, StatusInternalServerError)
        ELSE Render(tmpl.nodes,
                    IF handler = "index" THEN NilData ELSE MessageData(message))

\* The server accepts a request and starts a goroutine for it.
Accept(slot, method, path) ==
    /\ pc = "serving"
    /\ inflight[slot].stage \in {"idle", "done"}
    /\ inflight' = [inflight EXCEPT ![slot] =
                        [IdleSlot EXCEPT !.stage = "accepted", !.method = method,
                                         !.path = path]]
    /\ UNCHANGED <<environ, pc, cfg, server, templates, staticFiles, req, resp,
                   domainCall, adapterCall, calls>>

\* The goroutine runs the router. A template handler computes its message and
\* loads its template file; any other request is answered by the router or
\* the file server at once.
Begin(slot) ==
    LET r == inflight[slot]
        m == Match(server.routes, r.method, r.path)
    IN  /\ r.stage = "accepted"
        /\ IF CleanPath(r.path) = r.path /\ m.found /\ m.handler \in TemplateHandlers
           THEN inflight' = [inflight EXCEPT ![slot] =
                    [r EXCEPT !.stage = "parsed",
                              !.handler = m.handler,
                              !.message = HandlerMessage(slot, m.handler),
                              !.tmpl = LoadTemplate(slot, HandlerTemplatePath(m.handler)),
                              !.seen = templates[FileAt(HandlerTemplatePath(m.handler))]]]
           ELSE LET answer == ServeHTTP(server.routes, r.method, r.path)
                IN  inflight' = [inflight EXCEPT ![slot] =
                        [r EXCEPT !.stage = "done", !.handler = answer.handler,
                                  !.resp = answer]]
        /\ UNCHANGED <<environ, pc, cfg, server, templates, staticFiles, req, resp,
                       domainCall, adapterCall, calls>>

\* The template handler writes its response and returns.
Finish(slot) ==
    LET r == inflight[slot]
    IN  /\ r.stage = "parsed"
        /\ inflight' = [inflight EXCEPT ![slot] =
                [r EXCEPT !.stage = "done",
                          !.resp = By(r.handler,
                                      FinishHandler(r.handler, r.tmpl, r.message))]]
        /\ UNCHANGED <<environ, pc, cfg, server, templates, staticFiles, req, resp,
                       domainCall, adapterCall, calls>>

FilesChange(files) ==
    \/ \E f \in files : RemoveTemplate(f)
    \/ \E f \in files : \E s \in WrittenStates : WriteTemplate(f, s)

StaticChange ==
    \/ \E n \in StaticNames : PutStatic(n)
    \/ \E n \in StaticNames : RemoveStatic(n)

\* The server process and its environment.
Next ==
    \/ MainLoadConfig
    \/ MainNewServer
    \/ MainListen
    \/ MainListenFails
    \/ \E m \in Methods : \E p \in RequestPaths : HandleRequest(m, p)
    \/ FilesChange(TemplateFiles)
    \/ StaticChange

Spec == Init /\ [][Next]_vars

\* The greeter specification run against both drivers, in a checkout whose
\* template files may be missing or damaged.
InitGreeter == Boot([k \in {EnvKey, PortKey} |-> Unset])

NextGreeter ==
    \/ \E l \in Locations : DomainGreet(l)
    \/ \E l \in Locations : AdapterGreet(l)
    \/ FilesChange({"hello_world.html", "hello_uk.html"})

SpecGreeter == InitGreeter /\ [][NextGreeter]_vars

\* Sequences of calls of one greeter.
NextCalls == \E l \in Locations : GreeterCall(l)

SpecCalls == InitGreeter /\ [][NextCalls]_vars

\* The requests of the concurrent specifications.
ConcurrentPaths ==
    {<<"/">>, <<"/","h","e","l","l","o","-","w","o","r","l","d">>, <<"/","h","e","l","l","o","-","u","k">>, <<"/","H","e","l","l","o","-","U","K">>, <<"/","s","t","a","t","i","c","/","a","p","p",".","c","s","s">>}

ReloadPaths == {<<"/">>, <<"/","h","e","l","l","o","-","w","o","r","l","d">>, <<"/","h","e","l","l","o","-","u","k">>}

\* The server handling requests concurrently, the template files being as
\* they were when it started: each one intact, missing or damaged.
InitConcurrent ==
    \E t \in [TemplateFiles -> {"intact", "missing", "damaged"}] :
        BootWith([k \in {EnvKey, PortKey} |-> Unset], t)

NextConcurrent ==
    \/ MainLoadConfig
    \/ MainNewServer
    \/ MainListen
    \/ MainListenFails
    \/ \E s \in Slots : \E p \in ConcurrentPaths : Accept(s, "GET", p)
    \/ \E s \in Slots : Begin(s)
    \/ \E s \in Slots : Finish(s)

SpecConcurrent == InitConcurrent /\ [][NextConcurrent]_vars

\* The server handling requests while template files are removed, damaged
\* and restored.
NextReload ==
    \/ MainLoadConfig
    \/ MainNewServer
    \/ MainListen
    \/ MainListenFails
    \/ \E s \in Slots : \E p \in ReloadPaths : Accept(s, "GET", p)
    \/ \E s \in Slots : Begin(s)
    \/ \E s \in Slots : Finish(s)
    \/ FilesChange(TemplateFiles)

SpecReload == InitGreeter /\ [][NextReload]_vars

\* The start-up of the process in every environment of the model.
InitConfig ==
    \E env \in EnvValues : \E port \in PortValues :
        Boot([k \in {EnvKey, PortKey} |-> IF k = EnvKey THEN env ELSE port])

NextConfig ==
    \/ MainLoadConfig
    \/ MainNewServer
    \/ MainListen
    \/ MainListenFails

SpecConfig == InitConfig /\ [][NextConfig]_vars

\* The request paths of SpecErrors: the three routes, a path without a route,
\* a static file that exists and one that does not.
ErrorPaths ==
    { <<"/">>, <<"/","h","e","l","l","o","-","w","o","r","l","d">>, <<"/","h","e","l","l","o","-","u","k">>, <<"/","H","e","l","l","o","-","U","K">>,
      <<"/","s","t","a","t","i","c","/","a","p","p",".","c","s","s">>, <<"/","s","t","a","t","i","c","/","m","i","s","s","i","n","g",".","c","s","s">> }

\* Location tags the greeter does not recognize.
UnknownLocations == {<<"f","r","a","n","c","e">>}

\* The server with template files that may also parse and then fail to execute.
InitErrors == Boot([k \in {EnvKey, PortKey} |-> Unset])

NextErrors ==
    \/ MainLoadConfig
    \/ MainNewServer
    \/ MainListen
    \/ MainListenFails
    \/ \E m \in Methods : \E p \in ErrorPaths : HandleRequest(m, p)
    \/ FilesChange(TemplateFiles)
    \/ \E f \in TemplateFiles : WriteTemplate(f, "faulty")
    \/ \E l \in UnknownLocations : AdapterGreet(l)

SpecErrors == InitErrors /\ [][NextErrors]_vars

----------------------------------------------------------------------------
(* Properties of the greeter (checked under SpecGreeter) *)

\* C1: for the recognized location tags the greeter returns the matching
\* canned string: "uk" gives "Hello, UK!" and "world" gives "Hello, World!".
C1_GreetRecognized ==
    domainCall.called =>
        /\ domainCall.location = <<"u","k">> => domainCall.message = <<"H","e","l","l","o",","," ","U","K","!">>
        /\ domainCall.location = <<"w","o","r","l","d">> => domainCall.message = <<"H","e","l","l","o",","," ","W","o","r","l","d","!">>

C1_Witness ==
    /\ domainCall.called
    /\ domainCall.location = <<"u","k">>
    /\ domainCall.message = <<"H","e","l","l","o",","," ","U","K","!">>

\* C2: for every location other than "uk" and "world", the empty string and
\* "UK" included, the greeter returns the world default "Hello, World!".
C2_GreetDefault ==
    (domainCall.called /\ domainCall.location \notin {<<"u","k">>, <<"w","o","r","l","d">>})
        => domainCall.message = <<"H","e","l","l","o",","," ","W","o","r","l","d","!">>

C2_Witness ==
    /\ domainCall.called
    /\ domainCall.location = <<"U","K">>
    /\ domainCall.message = <<"H","e","l","l","o",","," ","W","o","r","l","d","!">>

\* C10: whatever the input, the greeter returns one of the two canned strings.
C10_GreetRange ==
    domainCall.called =>
        domainCall.message \in {<<"H","e","l","l","o",","," ","W","o","r","l","d","!">>, <<"H","e","l","l","o",","," ","U","K","!">>}

C10_Witness ==
    /\ domainCall.called
    /\ domainCall.location = <<"f","r","a","n","c","e">>
    /\ domainCall.message \in {<<"H","e","l","l","o",","," ","W","o","r","l","d","!">>, <<"H","e","l","l","o",","," ","U","K","!">>}

\* Both drivers were last called with the same location.
SameLocation ==
    /\ domainCall.called
    /\ adapterCall.called
    /\ domainCall.location = adapterCall.location

----------------------------------------------------------------------------
(* Properties of the server (checked under Spec) *)

Served == req.method # ""

Is(method, path) == req = [method |-> method, path |-> path]

\* C4: whenever its partial template loads, the body of GET /hello-world
\* contains "Hello, World!" and not "Hello, UK!", and the body of
\* GET /hello-uk contains "Hello, UK!" and not "Hello, World!".
C4_EndpointGreetsOwnLocation ==
    /\ (Is("GET", <<"/","h","e","l","l","o","-","w","o","r","l","d">>) /\ resp.status # StatusInternalServerError) =>
          /\ resp.handler = "hello-world"
          /\ resp.rendered
          /\ Contains(resp.body, <<"H","e","l","l","o",","," ","W","o","r","l","d","!">>)
          /\ ~Contains(resp.body, <<"H","e","l","l","o",","," ","U","K","!">>)
    /\ (Is("GET", <<"/","h","e","l","l","o","-","u","k">>) /\ resp.status # StatusInternalServerError) =>
          /\ resp.handler = "hello-uk"
          /\ resp.rendered
          /\ Contains(resp.body, <<"H","e","l","l","o",","," ","U","K","!">>)
          /\ ~Contains(resp.body, <<"H","e","l","l","o",","," ","W","o","r","l","d","!">>)

C4_Witness ==
    /\ Is("GET", <<"/","h","e","l","l","o","-","u","k">>)
    /\ resp.status = StatusOK
    /\ Contains(resp.body, <<"H","e","l","l","o",","," ","U","K","!">>)

HealthBody == <<"{","\"","s","t","a","t","u","s","\"",":","\"","o","k","\"","}">>

RequestStep ==
    /\ <<req, resp>>' # <<req, resp>>
    /\ UNCHANGED <<environ, pc, cfg, server, templates, staticFiles,
                   domainCall, adapterCall,
                   calls, inflight>>

TemplateRoutes ==
    { [path |-> <<"/">>, file |-> "index.html",
       missing |-> <<"o","p","e","n"," ","t","e","m","p","l","a","t","e","s","/","i","n","d","e","x",".","h","t","m","l",":"," ","n","o"," ","s","u","c","h"," ","f","i","l","e"," ","o","r"," ","d","i","r","e","c","t","o","r","y">>,
       damaged |-> <<"t","e","m","p","l","a","t","e",":"," ","i","n","d","e","x",".","h","t","m","l",":","1",":"," ","u","n","c","l","o","s","e","d"," ","a","c","t","i","o","n">>],
      [path |-> <<"/","h","e","l","l","o","-","w","o","r","l","d">>, file |-> "hello_world.html",
       missing |-> <<"o","p","e","n"," ","t","e","m","p","l","a","t","e","s","/","p","a","r","t","i","a","l","s","/","h","e","l","l","o","_","w","o","r","l","d",".","h","t","m","l",":"," ","n","o"," ","s","u","c","h"," ","f","i","l","e"," ","o","r"," ","d","i","r","e","c","t","o","r","y">>,
       damaged |-> <<"t","e","m","p","l","a","t","e",":"," ","h","e","l","l","o","_","w","o","r","l","d",".","h","t","m","l",":","1",":"," ","u","n","c","l","o","s","e","d"," ","a","c","t","i","o","n">>],
      [path |-> <<"/","h","e","l","l","o","-","u","k">>, file |-> "hello_uk.html",
       missing |-> <<"o","p","e","n"," ","t","e","m","p","l","a","t","e","s","/","p","a","r","t","i","a","l","s","/","h","e","l","l","o","_","u","k",".","h","t","m","l",":"," ","n","o"," ","s","u","c","h"," ","f","i","l","e"," ","o","r"," ","d","i","r","e","c","t","o","r","y">>,
       damaged |-> <<"t","e","m","p","l","a","t","e",":"," ","h","e","l","l","o","_","u","k",".","h","t","m","l",":","1",":"," ","u","n","c","l","o","s","e","d"," ","a","c","t","i","o","n">>] }

\* The template file cannot be loaded: it is missing, or cut off in an action.
LoadFails(file) == templates[file] \in {"missing", "damaged"}

\* The error text of the failing load.
LoadError(route) ==
    IF templates[route.file] = "missing" THEN route.missing ELSE route.damaged

\* C6 as stated: when loading the template fails, the index, hello-world and
\* hello-uk handlers answer 500 with the error text as the body, and render
\* nothing.
C6_LoadFailureBodyIsErrorText ==
    [][\A route \in TemplateRoutes :
          (RequestStep /\ req'.method = "GET" /\ req'.path = route.path
                /\ LoadFails(route.file)) =>
             /\ resp'.status = StatusInternalServerError
             /\ resp'.body = LoadError(route)
             /\ ~resp'.rendered]_vars

\* C6 as amended: when loading the template fails, the index, hello-world and
\* hello-uk handlers answer 500 with the error text followed by a newline as
\* the body, and render nothing.
C6_LoadFailureIs500 ==
    [][\A route \in TemplateRoutes :
          (RequestStep /\ req'.method = "GET" /\ req'.path = route.path
                /\ LoadFails(route.file)) =>
             /\ resp'.status = StatusInternalServerError
             /\ resp'.body = LoadError(route) \o Newline
             /\ ~resp'.rendered]_vars

C6_Witness ==
    /\ Is("GET", <<"/">>)
    /\ templates["index.html"] = "missing"
    /\ resp.status = StatusInternalServerError
    /\ resp.body = <<"o","p","e","n"," ","t","e","m","p","l","a","t","e","s","/","i","n","d","e","x",".","h","t","m","l",":"," ","n","o"," ","s","u","c","h"," ","f","i","l","e"," ","o","r"," ","d","i","r","e","c","t","o","r","y","\n">>

\* The path is in canonical form: rooted, without an empty, "." or ".." element.
IsCanonical(path) ==
    /\ HasPrefix(path, <<"/">>)
    /\ ~Contains(path, <<"/","/">>)
    /\ ~Contains(path \o <<"/">>, <<"/",".","/">>)
    /\ ~Contains(path \o <<"/">>, <<"/",".",".","/">>)

HandlerPaths == {<<"/">>, <<"/","h","e","l","l","o","-","w","o","r","l","d">>, <<"/","h","e","l","l","o","-","u","k">>}

\* The index, greet-world and greet-uk handlers run exactly for GET on their
\* own path.
HandlersRunExactlyOnTheirRoute ==
    /\ resp.handler = "index" <=> Is("GET", <<"/">>)
    /\ resp.handler = "hello-world" <=> Is("GET", <<"/","h","e","l","l","o","-","w","o","r","l","d">>)
    /\ resp.handler = "hello-uk" <=> Is("GET", <<"/","h","e","l","l","o","-","u","k">>)

\* The request is for none of the three routes nor for the static prefix.
Unrouted ==
    /\ ~(req.method = "GET" /\ req.path \in HandlerPaths)
    /\ ~HasPrefix(req.path, <<"/","s","t","a","t","i","c","/">>)

\* The router's default answer: 405 for a route's path with another method,
\* 404 for any other path.
DefaultAnswer ==
    /\ ~resp.rendered
    /\ IF req.path \in HandlerPaths
       THEN resp.handler = "method-not-allowed" /\ resp.status = StatusMethodNotAllowed
       ELSE resp.handler = "not-found" /\ resp.status = StatusNotFound

\* C7 as stated: each of the three handlers runs exactly for GET on its path;
\* a request with another method, or another path outside "/static/", runs
\* none of them and gets the router's not-found / method-not-allowed response.
C7_RouterTableDefaultsOnly ==
    Served =>
        /\ HandlersRunExactlyOnTheirRoute
        /\ Unrouted => DefaultAnswer

\* C7 as amended: each of the three handlers runs exactly for GET on its path;
\* a request with another method, or another path outside "/static/", runs
\* none of them and gets the router's not-found / method-not-allowed response
\* when its path is in canonical form, and a 301 redirect to the canonical
\* form of its path when it is not.
C7_RouterTable ==
    Served =>
        /\ HandlersRunExactlyOnTheirRoute
        /\ Unrouted =>
              IF IsCanonical(req.path) THEN DefaultAnswer
              ELSE /\ resp.handler = "redirect"
                   /\ resp.status = StatusMovedPermanently
                   /\ IsCanonical(resp.location)
                   /\ ~resp.rendered

C7_Witness ==
    /\ Is("POST", <<"/","h","e","l","l","o","-","u","k">>)
    /\ resp.handler = "method-not-allowed"
    /\ resp.status = StatusMethodNotAllowed

\* What follows "/static/" in the path.
Remainder(path) == SubSeq(path, Len(<<"/","s","t","a","t","i","c","/">>) + 1, Len(path))

\* C8 as stated: every request whose path begins with "/static/" goes to the
\* file server, which looks up the remainder of the path in the static
\* directory; a file that does not exist yields 404, and no greeting or index
\* handler runs.
C8_StaticPrefixAlwaysServed ==
    [][(RequestStep /\ HasPrefix(req'.path, <<"/","s","t","a","t","i","c","/">>)) =>
          LET file == Remainder(req'.path)
          IN  /\ resp'.handler = "static"
              /\ (file \in staticFiles /\ req'.method = "GET") =>
                    /\ resp'.status = StatusOK
                    /\ resp'.body = StaticContent(file)
              /\ (file \notin staticFiles /\ file # Empty) =>
                    /\ resp'.status = StatusNotFound
                    /\ resp'.body = <<"4","0","4"," ","p","a","g","e"," ","n","o","t"," ","f","o","u","n","d","\n">>]_vars

\* C8 as amended: every request whose path is in canonical form and begins
\* with "/static/" goes to the file server, which looks up the remainder of
\* the path in the static directory; a file that does not exist yields 404,
\* except that a path ending in "/index.html" is redirected (301) to its
\* directory; a path that is not in canonical form gets the router's 301
\* redirect instead; in no case does a greeting or index handler run.
C8_StaticPrefixServed ==
    [][(RequestStep /\ HasPrefix(req'.path, <<"/","s","t","a","t","i","c","/">>)) =>
          LET file == Remainder(req'.path)
          IN  IF IsCanonical(req'.path)
              THEN /\ resp'.handler = "static"
                   /\ (file \in staticFiles /\ file # <<"i","n","d","e","x",".","h","t","m","l">>) =>
                         /\ resp'.status = StatusOK
                         /\ resp'.body = StaticContent(file)
                   /\ (file \notin staticFiles /\ file # Empty
                            /\ file # <<"i","n","d","e","x",".","h","t","m","l">>) =>
                         /\ resp'.status = StatusNotFound
                         /\ resp'.body = <<"4","0","4"," ","p","a","g","e"," ","n","o","t"," ","f","o","u","n","d","\n">>
                   /\ file = <<"i","n","d","e","x",".","h","t","m","l">> =>
                         /\ resp'.status = StatusMovedPermanently
                         /\ resp'.location = <<".","/">>
              ELSE /\ resp'.handler = "redirect"
                   /\ resp'.status = StatusMovedPermanently]_vars

C8_Witness ==
    /\ Is("GET", <<"/","s","t","a","t","i","c","/","m","i","s","s","i","n","g",".","c","s","s">>)
    /\ resp.handler = "static"
    /\ resp.status = StatusNotFound

----------------------------------------------------------------------------
(* Properties of the configuration loader (checked under SpecConfig) *)

\* The variable is absent or empty.
Blank(key) == ~environ[key].set \/ environ[key].val = <<>>

\* C9: LoadConfig returns Env = "local" when ENV is absent or empty and
\* Port = "8080" when PORT is absent or empty; otherwise each field is its
\* variable's value, unvalidated, and neither field depends on the other
\* variable.
C9_LoadConfigDefaults ==
    pc # "start" =>
        /\ cfg.Env = IF Blank("ENV") THEN <<"l","o","c","a","l">> ELSE environ["ENV"].val
        /\ cfg.Port = IF Blank("PORT") THEN <<"8","0","8","0">> ELSE environ["PORT"].val

C9_Witness ==
    /\ pc = "configured"
    /\ ~environ["ENV"].set
    /\ environ["PORT"] = [set |-> TRUE, val |-> <<"a","b","c">>]
    /\ cfg = [Env |-> <<"l","o","c","a","l">>, Port |-> <<"a","b","c">>]

----------------------------------------------------------------------------
(* Properties of the process start-up (checked under Spec) *)

\* The steps of main, in order; "fatal" follows only a failed listen.
MainSteps ==
    { <<"start", "configured">>, <<"configured", "built">>,
      <<"built", "serving">>, <<"built", "fatal">> }

\* C12: the process loads the configuration, builds the server on the address
\* ":" followed by the port, and listens; a failed listen ends the process,
\* and nothing else does: no request outcome ends it.
C12_OnlyListenFailureIsFatal ==
    [][/\ pc' # pc => <<pc, pc'>> \in MainSteps
       /\ pc' \notin {"start", "configured"} =>
             /\ server'.addr = <<":">> \o cfg'.Port
             /\ cfg'.Port = IF Blank("PORT") THEN <<"8","0","8","0">> ELSE environ["PORT"].val
       /\ <<req, resp>>' # <<req, resp>> => (pc = "serving" /\ pc' = "serving")
       /\ pc = "fatal" => (pc' = "fatal" /\ req' = req /\ resp' = resp)]_vars

C12_Witness ==
    /\ pc = "fatal"
    /\ server.addr = <<":","9","0","9","0">>
    /\ req = NoRequest

----------------------------------------------------------------------------
(* Properties of the error paths (checked under SpecErrors) *)

\* A step in which the HTTP driver is called with an unrecognized location
\* (and nothing else changes).
AdapterStep ==
    /\ adapterCall' # adapterCall
    /\ adapterCall'.location \notin {<<"u","k">>, <<"w","o","r","l","d">>}
    /\ UNCHANGED <<environ, pc, cfg, server, templates, staticFiles, req, resp,
                   domainCall,
                   calls, inflight>>

----------------------------------------------------------------------------
(* Properties of sequences of greeter calls (checked under SpecCalls) *)

----------------------------------------------------------------------------
(* Properties of concurrent handling (checked under SpecConcurrent) *)

\* The response the request in the slot gets when it is handled alone.
AloneResponse(slot) ==
    ServeHTTP(NewRouter, inflight[slot].method, inflight[slot].path)

\* C13: handling a request changes nothing but the locals of its own handler,
\* so with the template files unchanged, in every interleaving of the
\* requests being handled each response is the response the same request gets
\* when handled alone.
C13_ResponsesIndependent ==
    [][inflight' # inflight =>
          /\ UNCHANGED <<environ, pc, cfg, server, templates, staticFiles, req,
                         resp, domainCall, adapterCall, calls>>
          /\ \E s \in Slots : \A o \in Slots \ {s} : inflight'[o] = inflight[o]
          /\ \A s \in Slots :
                inflight'[s].stage = "done" =>
                    inflight'[s].resp =
                        ServeHTTP(NewRouter, inflight'[s].method, inflight'[s].path)]_vars

C13_Witness ==
    \E s, o \in Slots :
        /\ s # o
        /\ inflight[s].stage = "parsed"
        /\ inflight[s].handler = "hello-uk"
        /\ inflight[o].stage = "done"
        /\ inflight[o].handler = "hello-world"
        /\ inflight[o].resp = AloneResponse(o)
        /\ Contains(inflight[o].resp.body, <<"H","e","l","l","o",","," ","W","o","r","l","d","!">>)

----------------------------------------------------------------------------
(* Properties of template reloading (checked under SpecReload) *)

\* What each route answers for each state of its template file.
ReloadRoutes ==
    { [path |-> <<"/">>,
       page |-> <<"<","h","1",">","G","r","e","e","t","i","n","g","s","<","/","h","1",">">>,
       missing |-> <<"o","p","e","n"," ","t","e","m","p","l","a","t","e","s","/","i","n","d","e","x",".","h","t","m","l",":"," ","n","o"," ","s","u","c","h"," ","f","i","l","e"," ","o","r"," ","d","i","r","e","c","t","o","r","y","\n">>,
       damaged |-> <<"t","e","m","p","l","a","t","e",":"," ","i","n","d","e","x",".","h","t","m","l",":","1",":"," ","u","n","c","l","o","s","e","d"," ","a","c","t","i","o","n","\n">>],
      [path |-> <<"/","h","e","l","l","o","-","w","o","r","l","d">>,
       page |-> <<"<","d","i","v",">","<","h","2",">","H","e","l","l","o",","," ","W","o","r","l","d","!","<","/","h","2",">","<","/","d","i","v",">">>,
       missing |-> <<"o","p","e","n"," ","t","e","m","p","l","a","t","e","s","/","p","a","r","t","i","a","l","s","/","h","e","l","l","o","_","w","o","r","l","d",".","h","t","m","l",":"," ","n","o"," ","s","u","c","h"," ","f","i","l","e"," ","o","r"," ","d","i","r","e","c","t","o","r","y","\n">>,
       damaged |-> <<"t","e","m","p","l","a","t","e",":"," ","h","e","l","l","o","_","w","o","r","l","d",".","h","t","m","l",":","1",":"," ","u","n","c","l","o","s","e","d"," ","a","c","t","i","o","n","\n">>],
      [path |-> <<"/","h","e","l","l","o","-","u","k">>,
       page |-> <<"<","d","i","v",">","<","h","2",">","H","e","l","l","o",","," ","U","K","!","<","/","h","2",">","<","/","d","i","v",">">>,
       missing |-> <<"o","p","e","n"," ","t","e","m","p","l","a","t","e","s","/","p","a","r","t","i","a","l","s","/","h","e","l","l","o","_","u","k",".","h","t","m","l",":"," ","n","o"," ","s","u","c","h"," ","f","i","l","e"," ","o","r"," ","d","i","r","e","c","t","o","r","y","\n">>,
       damaged |-> <<"t","e","m","p","l","a","t","e",":"," ","h","e","l","l","o","_","u","k",".","h","t","m","l",":","1",":"," ","u","n","c","l","o","s","e","d"," ","a","c","t","i","o","n","\n">>] }

\* C14: the template is loaded from disk at every request and never kept: the
\* response to a request on a template route is decided by the state the
\* file was in when that request loaded it, whatever earlier requests got; a
\* missing or damaged file gives 500, the file restored gives the page again.
C14_OutcomeFollowsFileAtRequest ==
    \A s \in Slots : \A route \in ReloadRoutes :
        (/\ inflight[s].stage = "done"
         /\ inflight[s].method = "GET"
         /\ inflight[s].path = route.path) =>
            LET r == inflight[s].resp
                seen == inflight[s].seen
            IN  /\ seen \in {"intact", "missing", "damaged"}
                /\ seen = "intact" =>
                      (r.status = StatusOK /\ r.rendered /\ r.body = route.page)
                /\ seen = "missing" =>
                      (r.status = StatusInternalServerError /\ ~r.rendered
                          /\ r.body = route.missing)
                /\ seen = "damaged" =>
                      (r.status = StatusInternalServerError /\ ~r.rendered
                          /\ r.body = route.damaged)

C14_Witness ==
    \E s, o \in Slots :
        /\ s # o
        /\ inflight[s].stage = "done" /\ inflight[o].stage = "done"
        /\ inflight[s].path = <<"/","h","e","l","l","o","-","u","k">> /\ inflight[o].path = <<"/","h","e","l","l","o","-","u","k">>
        /\ inflight[s].seen = "missing"
        /\ inflight[s].resp.status = StatusInternalServerError
        /\ inflight[o].seen = "intact"
        /\ inflight[o].resp.status = StatusOK
        /\ templates["hello_uk.html"] = "intact"

====
